---- MODULE Spec2Model ----
(***************************************************************************)
(* Model of utils/vl671_fix_fw_checksum.py: the two checksum engines       *)
(* (crc8, crc32) and the in-place patch routine fix_firmware_checksum.     *)
(*                                                                         *)
(* A file is a sequence of bytes; file offset p is element p + 1.          *)
(* Python integers are unbounded.  The crc8 accumulator stays below 2^24   *)
(* and is modelled as a number.  The crc32 accumulator and parameters      *)
(* reach 2^32 and beyond, so they are modelled as the set of positions of  *)
(* their 1 bits: XOR is symmetric difference, << is a translation of the   *)
(* positions, & 0xFFFFFFFF keeps the positions 0..31.                      *)
(***************************************************************************)
EXTENDS Integers, Sequences, FiniteSets, TLC

VARIABLES
    file,            \* content of the file at file_path
    before,          \* content of the file when the current run opened it
    pc,              \* position of the running routine
    header,          \* local: header = f.read(0x1F)
    payload_offset,  \* local
    payload_size,    \* local
    payload,         \* local: payload = f.read(payload_size - 4)
    error,           \* message of the raised ValueError, or NoError
    output,          \* line printed by the run, or NoOutput
    written,         \* offsets written by f.write during the current run
    runs,            \* number of completed runs on the file
    data,            \* argument of a direct crc8 / crc32 call
    poly,            \* argument of a direct crc32 call (bit set)
    init,            \* argument of a direct crc32 call (bit set)
    xorout,          \* argument of a direct crc32 call (bit set)
    ret              \* value returned by the direct call, or NoRet

vars == <<file, before, pc, header, payload_offset, payload_size, payload,
          error, output, written, runs, data, poly, init, xorout, ret>>

fileVars == <<file, before, header, payload_offset, payload_size, payload,
              error, output, written, runs>>
callVars == <<data, poly, init, xorout, ret>>

----------------------------------------------------------------------------
(* Bounds of the explored inputs *)

MaxLen == 40        \* longest input file
MaxSeed == 1        \* number of fill patterns - 1
MaxRuns == 2        \* successive runs on the same file
MaxData8 == 3       \* longest input of a direct crc8 call
MaxData32 == 2      \* longest input of a direct crc32 call

----------------------------------------------------------------------------
(* Layout constants of the program *)

HeaderLen == 31         \* 0x1F: f.read(0x1F), and the seek target of the CRC-8
DescriptorAt == 4       \* 0x4: f.seek(0x4)
Crc32Len == 4           \* payload_size - 4, struct.pack('<I', ...)
Crc8Poly == 33664       \* 0x8380
Crc8TopBit == 32768     \* 0x8000
Crc8Mask == 65535       \* 0xFFFF

NoError == "none"
NoOutput == "none"
NoRet == "none"
ErrHeader == "File is too small to contain required header bytes for CRC8 calculation."
ErrSize == "Payload size in header is too small to contain checksum."
ErrTruncated == "File is too small to contain the entire payload."
MsgSuccess == "Checksums fixed successfully"

Min(a, b) == IF a < b THEN a ELSE b
Max(a, b) == IF a > b THEN a ELSE b

----------------------------------------------------------------------------
(* Bitwise operators on natural numbers *)

RECURSIVE BitXor(_, _)
BitXor(a, b) ==
    IF a = 0 THEN b
    ELSE IF b = 0 THEN a
    ELSE ((a + b) % 2) + 2 * BitXor(a \div 2, b \div 2)

RECURSIVE BitAnd(_, _)
BitAnd(a, b) ==
    IF a = 0 \/ b = 0 THEN 0
    ELSE ((a % 2) * (b % 2)) + 2 * BitAnd(a \div 2, b \div 2)

\* "a & m" is nonzero, for a mask m with a single bit set
TestBits(a, m) == (a \div m) % 2 = 1

(* Bit sets: a Python integer n >= 0 as {i : bit i of n is 1} *)

RECURSIVE Pow2(_)
Pow2(n) == IF n = 0 THEN 1 ELSE 2 * Pow2(n - 1)

ToBits(n) == {i \in 0..30 : (n \div Pow2(i)) % 2 = 1}
SetXor(a, b) == (a \ b) \cup (b \ a)
ShiftLeft(a, k) == {i + k : i \in a}
Mask32 == 0..31

RECURSIVE SumPow2(_)
SumPow2(s) ==
    IF s = {} THEN 0
    ELSE LET i == CHOOSE x \in s : TRUE IN Pow2(i) + SumPow2(s \ {i})

\* byte k (0 = least significant) of the integer with bit set a
ByteOf(a, k) == SumPow2({i - 8 * k : i \in a \cap (8 * k)..(8 * k + 7)})

----------------------------------------------------------------------------
(* crc8, lines 4-23 *)

crc8RoundMut(v) == IF TestBits(v, Crc8TopBit) THEN BitXor(v * 2, Crc8Poly) ELSE v * 2

\* one round of the inner loop: "if v5 & 0x8000: v5 ^= 0x8380", then "v5 *= 2"
crc8Round(v) == (IF TestBits(v, Crc8TopBit) THEN BitXor(v, Crc8Poly) ELSE v) * 2

\* the inner loop "for _ in range(8)": n rounds on accumulator v
RECURSIVE crc8Rounds(_, _)
crc8Rounds(v, n) == IF n = 0 THEN v ELSE crc8Rounds(crc8Round(v), n - 1)

\* the body of the outer loop for one byte b, lines 16-21
crc8Byte(v, b) == BitAnd(crc8Rounds(BitXor(v, b * 256), 8), Crc8Mask)

\* the outer loop "for byte in data" over d[lo..hi], entered with accumulator
\* v: the bytes are folded in order, the first half of the range before the
\* second (this keeps the evaluation depth logarithmic in the length)
RECURSIVE crc8Loop(_, _, _, _)
crc8Loop(d, lo, hi, v) ==
    IF lo > hi THEN v
    ELSE IF lo = hi THEN crc8Byte(v, d[lo])
    ELSE LET mid == (lo + hi) \div 2
             v5 == crc8Loop(d, lo, mid, v)
         IN  IF v5 \in Nat THEN crc8Loop(d, mid + 1, hi, v5) ELSE v5

crc8(d) == BitAnd(crc8Loop(d, 1, Len(d), 0) \div 256, 255)

----------------------------------------------------------------------------
(* crc32, lines 25-47 *)

\* the inner loop "for _ in range(8)" on accumulator crc with polynomial p
RECURSIVE crc32Rounds(_, _, _)
crc32Rounds(crc, p, n) ==
    IF n = 0 THEN crc
    ELSE LET x == IF 31 \in crc THEN SetXor(ShiftLeft(crc, 1), p)
                  ELSE ShiftLeft(crc, 1)
         IN  crc32Rounds(x \cap Mask32, p, n - 1)

\* the body of the outer loop for one byte b, lines 40-46
crc32Byte(crc, p, b) == crc32Rounds(SetXor(crc, ShiftLeft(ToBits(b), 24)), p, 8)

\* the outer loop "for byte in data" over d[lo..hi], entered with accumulator
\* crc: the bytes are folded in order, the first half of the range before
\* the second
RECURSIVE crc32Loop(_, _, _, _, _)
crc32Loop(d, p, lo, hi, crc) ==
    IF lo > hi THEN crc
    ELSE IF lo = hi THEN crc32Byte(crc, p, d[lo])
    ELSE LET mid == (lo + hi) \div 2
             c == crc32Loop(d, p, lo, mid, crc)
         IN  IF IsFiniteSet(c) THEN crc32Loop(d, p, mid + 1, hi, c) ELSE c

crc32(d, p, i, x) == SetXor(crc32Loop(d, p, 1, Len(d), i), x)

DefaultPoly == ToBits(79764919)     \* 0x04C11DB7
DefaultInit == {}                   \* 0x0
DefaultXorOut == {}                 \* 0x0

----------------------------------------------------------------------------
(* File primitives *)

\* f.seek(pos); f.read(n): at most n bytes, fewer at end of file
ReadAt(f, pos, n) == SubSeq(f, pos + 1, Min(pos + n, Len(f)))

\* f.seek(pos); f.write(bytes): overwrites in place, extends the file when
\* the write reaches past its end, zero-filling a gap before pos
WriteAt(f, pos, bytes) ==
    [i \in 1..Max(Len(f), pos + Len(bytes)) |->
        IF i > pos /\ i <= pos + Len(bytes) THEN bytes[i - pos]
        ELSE IF i <= Len(f) THEN f[i]
        ELSE 0]

\* struct.unpack('>H', two bytes)
UnpackBE16(b) == b[1] * 256 + b[2]

\* struct.pack('<I', c) for a bit set c within 32 bits
PackLE32(c) == <<ByteOf(c, 0), ByteOf(c, 1), ByteOf(c, 2), ByteOf(c, 3)>>

----------------------------------------------------------------------------
(* Input files *)

PayloadOffsets == {0, 4, 24, 32, 34, 256}
PayloadSizes == {0, 3, 4, 8, 256}
FileLens == {0, HeaderLen - 1, HeaderLen} \cup (HeaderLen + 1)..MaxLen

\* byte at (1-based) index i of the fill pattern s
Fill(i, s) == (11 + 101 * s + 37 * i) % 256

\* a file of length n whose descriptor declares (off, size)
MakeFile(n, off, size, s) ==
    [i \in 1..n |->
        IF i = DescriptorAt + 1 THEN off \div 256
        ELSE IF i = DescriptorAt + 2 THEN off % 256
        ELSE IF i = DescriptorAt + 3 THEN size \div 256
        ELSE IF i = DescriptorAt + 4 THEN size % 256
        ELSE Fill(i, s)]

InputFiles ==
    {MakeFile(n, off, size, s) :
        n \in FileLens, off \in PayloadOffsets, size \in PayloadSizes, s \in 0..MaxSeed}

----------------------------------------------------------------------------
(* fix_firmware_checksum, lines 49-96 *)

Init ==
    /\ file \in InputFiles
    /\ before = file
    /\ pc = "read_header"
    /\ header = <<>>
    /\ payload_offset = 0
    /\ payload_size = 0
    /\ payload = <<>>
    /\ error = NoError
    /\ output = NoOutput
    /\ written = {}
    /\ runs = 0
    /\ data = <<>>
    /\ poly = {}
    /\ init = {}
    /\ xorout = {}
    /\ ret = NoRet

\* lines 59-65: open, read the header, reject a short one
ReadHeaderMut ==
    /\ pc = "read_header"
    /\ header' = ReadAt(file, 0, HeaderLen)
    /\ IF Len(header') < HeaderLen - 1
          THEN /\ error' = ErrHeader
               /\ pc' = "except"
          ELSE /\ error' = error
               /\ pc' = "write_crc8"
    /\ UNCHANGED <<file, before, payload_offset, payload_size, payload,
                   output, written, runs>>
    /\ UNCHANGED callVars

ReadHeader ==
    /\ pc = "read_header"
    /\ header' = ReadAt(file, 0, HeaderLen)
    /\ IF Len(header') < HeaderLen
          THEN /\ error' = ErrHeader
               /\ pc' = "except"
          ELSE /\ error' = error
               /\ pc' = "write_crc8"
    /\ UNCHANGED <<file, before, payload_offset, payload_size, payload,
                   output, written, runs>>
    /\ UNCHANGED callVars

\* lines 67-69: compute the CRC-8 of the header and store it at 0x1F
WriteCrc8 ==
    /\ pc = "write_crc8"
    /\ file' = WriteAt(file, HeaderLen, <<crc8(header)>>)
    /\ written' = written \cup {HeaderLen}
    /\ pc' = "read_descriptor"
    /\ UNCHANGED <<before, header, payload_offset, payload_size, payload,
                   error, output, runs>>
    /\ UNCHANGED callVars

\* lines 72-77: read payload_offset and payload_size, reject a size below 4
ReadDescriptorMut ==
    /\ pc = "read_descriptor"
    /\ payload_offset' = UnpackBE16(ReadAt(file, DescriptorAt, 2))
    /\ payload_size' = UnpackBE16(ReadAt(file, DescriptorAt + 2, 2))
    /\ IF payload_size' < Crc32Len - 1
          THEN /\ error' = ErrSize
               /\ pc' = "except"
          ELSE /\ error' = error
               /\ pc' = "read_payload"
    /\ UNCHANGED <<file, before, header, payload, output, written, runs>>
    /\ UNCHANGED callVars

ReadDescriptor ==
    /\ pc = "read_descriptor"
    /\ payload_offset' = UnpackBE16(ReadAt(file, DescriptorAt, 2))
    /\ payload_size' = UnpackBE16(ReadAt(file, DescriptorAt + 2, 2))
    /\ IF payload_size' < Crc32Len
          THEN /\ error' = ErrSize
               /\ pc' = "except"
          ELSE /\ error' = error
               /\ pc' = "read_payload"
    /\ UNCHANGED <<file, before, header, payload, output, written, runs>>
    /\ UNCHANGED callVars

\* lines 80-84: read the payload data, reject a short read
ReadPayload ==
    /\ pc = "read_payload"
    /\ payload' = ReadAt(file, payload_offset, payload_size - Crc32Len)
    /\ IF Len(payload') # payload_size - Crc32Len
          THEN /\ error' = ErrTruncated
               /\ pc' = "except"
          ELSE /\ error' = error
               /\ pc' = "write_crc32"
    /\ UNCHANGED <<file, before, header, payload_offset, payload_size,
                   output, written, runs>>
    /\ UNCHANGED callVars

\* lines 87-91: compute the CRC-32 of the payload data and store it,
\* little-endian, at the end of the payload
WriteCrc32Mut ==
    /\ pc = "write_crc32"
    /\ LET at == payload_offset + payload_size
           bytes == PackLE32(crc32(payload, DefaultPoly, DefaultInit, DefaultXorOut))
       IN  /\ file' = WriteAt(file, at, bytes)
           /\ written' = written \cup at..(at + Len(bytes) - 1)
    /\ pc' = "print"
    /\ UNCHANGED <<before, header, payload_offset, payload_size, payload,
                   error, output, runs>>
    /\ UNCHANGED callVars

WriteCrc32 ==
    /\ pc = "write_crc32"
    /\ LET at == payload_offset + payload_size - Crc32Len
           bytes == PackLE32(crc32(payload, DefaultPoly, DefaultInit, DefaultXorOut))
       IN  /\ file' = WriteAt(file, at, bytes)
           /\ written' = written \cup at..(at + Len(bytes) - 1)
    /\ pc' = "print"
    /\ UNCHANGED <<before, header, payload_offset, payload_size, payload,
                   error, output, runs>>
    /\ UNCHANGED callVars

\* line 93: the with block closed the file, report success
PrintSuccess ==
    /\ pc = "print"
    /\ output' = MsgSuccess
    /\ runs' = runs + 1
    /\ pc' = "done"
    /\ UNCHANGED <<file, before, header, payload_offset, payload_size, payload,
                   error, written>>
    /\ UNCHANGED callVars

\* lines 95-96: the exception is caught and printed
Except ==
    /\ pc = "except"
    /\ output' = error
    /\ runs' = runs + 1
    /\ pc' = "done"
    /\ UNCHANGED <<file, before, header, payload_offset, payload_size, payload,
                   error, written>>
    /\ UNCHANGED callVars

\* lines 98-104: the tool is invoked again on the same file
Main ==
    /\ pc = "done"
    /\ runs < MaxRuns
    /\ before' = file
    /\ pc' = "read_header"
    /\ header' = <<>>
    /\ payload_offset' = 0
    /\ payload_size' = 0
    /\ payload' = <<>>
    /\ error' = NoError
    /\ output' = NoOutput
    /\ written' = {}
    /\ UNCHANGED <<file, runs>>
    /\ UNCHANGED callVars

Next ==
    \/ ReadHeader
    \/ WriteCrc8
    \/ ReadDescriptor
    \/ ReadPayload
    \/ WriteCrc32
    \/ PrintSuccess
    \/ Except
    \/ Main

Spec == Init /\ [][Next]_vars

----------------------------------------------------------------------------
(* Direct calls of the checksum engines *)

BoundedSeq(S, n) == UNION {[1..m -> S] : m \in 0..n}

Crc8Bytes == {0, 1, 128, 165, 255}
Crc32Bytes == {0, 1, 128, 255}
Polys == {DefaultPoly, {0, 32}}
Inits == {DefaultInit, Mask32, {32}}
XorOuts == {DefaultXorOut, Mask32, {32}}

IdleFile ==
    /\ file = <<>>
    /\ before = <<>>
    /\ header = <<>>
    /\ payload_offset = 0
    /\ payload_size = 0
    /\ payload = <<>>
    /\ error = NoError
    /\ output = NoOutput
    /\ written = {}
    /\ runs = 0

InitCrc8 ==
    /\ IdleFile
    /\ pc = "call"
    /\ data \in BoundedSeq(Crc8Bytes, MaxData8)
    /\ poly = {}
    /\ init = {}
    /\ xorout = {}
    /\ ret = NoRet

\* crc8(data), lines 4-23
CallCrc8 ==
    /\ pc = "call"
    /\ ret' = crc8(data)
    /\ pc' = "return"
    /\ UNCHANGED <<data, poly, init, xorout>>
    /\ UNCHANGED fileVars

SpecCrc8 == InitCrc8 /\ [][CallCrc8]_vars

InitCrc32 ==
    /\ IdleFile
    /\ pc = "call"
    /\ data \in BoundedSeq(Crc32Bytes, MaxData32)
    /\ poly \in Polys
    /\ init \in Inits
    /\ xorout \in XorOuts
    /\ ret = NoRet

\* crc32(data, poly, init, xorout), lines 25-47
CallCrc32 ==
    /\ pc = "call"
    /\ ret' = crc32(data, poly, init, xorout)
    /\ pc' = "return"
    /\ UNCHANGED <<data, poly, init, xorout>>
    /\ UNCHANGED fileVars

SpecCrc32 == InitCrc32 /\ [][CallCrc32]_vars

----------------------------------------------------------------------------
(* Properties *)

\* big-endian u16 at file offset pos of f
U16(f, pos) == f[pos + 1] * 256 + f[pos + 2]

\* little-endian u32 at file offset pos of f, as a bit set
U32LE(f, pos) ==
    UNION {ShiftLeft(ToBits(f[pos + 1 + k]), 8 * k) : k \in 0..3}

\* offsets of the CRC-32 slot declared by the descriptor of f
Slot(f) == (U16(f, 4) + U16(f, 6) - 4)..(U16(f, 4) + U16(f, 6) - 1)

\* f agrees with g at every offset of g outside the set skip
SameExcept(f, g, skip) ==
    /\ Len(f) >= Len(g)
    /\ \A i \in 1..Len(g) : (i - 1) \notin skip => f[i] = g[i]

Finished == pc = "done"
Succeeded == pc = "done" /\ output = MsgSuccess

\* C1: after a run that reports success, the byte at 0x1F equals crc8 of
\* bytes [0, 0x1F) of the resulting file, whatever the header declares.
C1_Crc8RoundTrip ==
    Succeeded => file[32] = crc8(SubSeq(file, 1, 31))

\* C2: after a run that reports success, the descriptor re-read from the
\* resulting file declares a payload whose CRC-32 (default parameters) over
\* the payload data equals the little-endian value in its last four bytes.
C2_Crc32RoundTrip ==
    Succeeded =>
        LET off == U16(file, 4)
            size == U16(file, 6)
        IN  /\ size >= 4
            /\ Len(file) >= off + size
            /\ crc32(SubSeq(file, off + 1, off + size - 4),
                     DefaultPoly, DefaultInit, DefaultXorOut)
                   = U32LE(file, off + size - 4)

\* C3: a second run in succession leaves the file byte-for-byte as the
\* first run left it.
C3_Idempotent ==
    (Finished /\ runs >= 2) => file = before

\* C4: a file of at least 31 bytes with payload_size >= 4 that is shorter
\* than payload_offset + payload_size ends in the truncated-file error with
\* only the CRC-8 byte written.
C4_TruncatedRegion ==
    (Finished /\ Len(before) >= 31 /\ U16(before, 6) >= 4
              /\ Len(before) < U16(before, 4) + U16(before, 6))
        => (output = ErrTruncated /\ written = {31})

\* C5: the length of the file never changes, in any state of any run.
C5_NeverResized ==
    Len(file) = Len(before)

\* C6: on a well-formed file (at least 0x20 bytes, payload_size >= 4, whole
\* payload region inside the file) the run succeeds, writes exactly the
\* byte at 0x1F and the four bytes of the CRC-32 slot, and leaves every
\* other byte as it was.
WellFormed(f) ==
    /\ Len(f) >= 32
    /\ U16(f, 6) >= 4
    /\ Len(f) >= U16(f, 4) + U16(f, 6)

C6_SuccessFrame ==
    WellFormed(before) =>
        /\ SameExcept(file, before, {31} \cup Slot(before))
        /\ Len(file) = Len(before)
        /\ written \subseteq {31} \cup Slot(before)
        /\ pc # "except"
        /\ Finished => (output = MsgSuccess /\ written = {31} \cup Slot(before))

C6_Witness ==
    /\ Succeeded
    /\ WellFormed(before)
    /\ file # before
    /\ 31 \notin Slot(before)

\* C7: on a file of at least 31 bytes whose payload_size is below 4 the run
\* ends in the size-validation error; when the error is raised the byte at
\* 0x1F holds crc8 of bytes [0, 0x1F), it is the only byte written, and the
\* payload steps never run.
C7_SizeBelowFour ==
    (Len(before) >= 31 /\ U16(before, 6) < 4) =>
        /\ pc \notin {"read_payload", "write_crc32", "print"}
        /\ pc \in {"except", "done"} =>
              /\ error = ErrSize
              /\ written = {31}
              /\ Len(file) = Max(Len(before), 32)
              /\ file[32] = crc8(SubSeq(file, 1, 31))
              /\ SameExcept(file, before, {31})
        /\ Finished => output = ErrSize

C7_Witness ==
    /\ Finished
    /\ Len(before) >= 31
    /\ U16(before, 6) = 3
    /\ output = ErrSize
    /\ file # before

\* C8: on a file shorter than 31 bytes the run ends in the header-too-short
\* error, which is caught and printed, and the file is never written: its
\* content and length stay what they were.
C8_HeaderTooShort ==
    Len(before) < 31 =>
        /\ file = before
        /\ written = {}
        /\ pc \in {"read_header", "except", "done"}
        /\ pc = "except" => error = ErrHeader
        /\ Finished => output = ErrHeader

C8_Witness ==
    /\ Finished
    /\ Len(before) = 30
    /\ output = ErrHeader
    /\ file = before

\* The reference CRC-8: a 16-bit accumulator, masked after every shift.
Crc8RefRound(v) ==
    ((IF v >= 32768 THEN BitXor(v, 33664) ELSE v) * 2) % 65536

RECURSIVE Crc8RefRounds(_, _)
Crc8RefRounds(v, n) == IF n = 0 THEN v ELSE Crc8RefRounds(Crc8RefRound(v), n - 1)

RECURSIVE Crc8RefLoop(_, _, _, _)
Crc8RefLoop(d, lo, hi, acc) ==
    IF lo > hi THEN acc
    ELSE IF lo = hi THEN Crc8RefRounds(BitXor(acc, d[lo] * 256), 8)
    ELSE LET mid == (lo + hi) \div 2
             a == Crc8RefLoop(d, lo, mid, acc)
         IN  IF a \in 0..65535 THEN Crc8RefLoop(d, mid + 1, hi, a) ELSE a

Crc8Ref(d) == Crc8RefLoop(d, 1, Len(d), 0) \div 256

\* C9: crc8 returns, for every byte sequence, the value of the reference
\* algorithm that masks to 16 bits after every shift; the value is a byte,
\* and it is 0 for the empty sequence.
C9_Crc8MatchesReference ==
    pc = "return" =>
        /\ ret = Crc8Ref(data)
        /\ ret \in 0..255
        /\ data = <<>> => ret = 0

C9_Witness ==
    /\ pc = "return"
    /\ Len(data) >= 2
    /\ data[1] = 255
    /\ ret = Crc8Ref(data)
    /\ ret # 0

\* C10: crc32 returns, for every data, polynomial, initial value and output
\* XOR mask, a value within 32 bits that equals crc32 with mask 0 XORed with
\* the mask, and 0 for the empty input with the default parameters.
C10_Crc32Masked ==
    pc = "return" =>
        /\ ret \subseteq Mask32
        /\ ret = SetXor(crc32(data, poly, init, {}), xorout)
        /\ (data = <<>> /\ poly = DefaultPoly /\ init = DefaultInit
               /\ xorout = DefaultXorOut) => ret = {}

====
